---------------------------- MODULE Spec2Model ----------------------------
(***************************************************************************)
(* A model of thomas6m/Data_Cleaner: the lookup cache and the join of     *)
(* lookup.py, the format converter of converter.py, the resource           *)
(* assessment of perf_utils.py, the chunk size of utils.py and the column  *)
(* normalizer.                                                             *)
(*                                                                         *)
(* File paths are sequences of one-character strings, so that lower(),     *)
(* endswith(), os.path.splitext(), os.path.join() and the '..' test of the *)
(* code are computed, not assumed.                                         *)
(***************************************************************************)
EXTENDS Integers, Sequences, FiniteSets, TLC

(***************************************************************************)
(* Bounds of the model.                                                    *)
(***************************************************************************)
\* The number of callers that may be inside get_lookup_df at once (SpecConc).
NumCallers == 2
\* The number of distinct contents a lookup file takes over time.
MaxVer == 2
\* The number of calls of get_lookup_df the concurrent callers make in all.
MaxCalls == 3
\* The number of input files of the converter that exist at once.
MaxFiles == 1
\* The largest file size, available memory and recommended maximum (GB) of
\* the resource assessment.
MaxSizeGB == 6
MaxAvailGB == 6
MaxRecommendedGB == 3
\* The length of the column names given to the normalizer.
MaxNameLen == 3
\* The numbers of rows of the main and of the lookup frame of apply_lookup.
MaxMainRows == 2
MaxLookupRows == 2

(***************************************************************************)
(* Strings as sequences of characters.                                     *)
(***************************************************************************)
\* str.lower() on the characters the model uses.
LowerChar(c) ==
    CASE c = "A" -> "a" [] c = "B" -> "b" [] c = "C" -> "c" [] c = "D" -> "d"
      [] c = "J" -> "j" [] c = "L" -> "l" [] c = "N" -> "n" [] c = "O" -> "o"
      [] c = "S" -> "s" [] c = "T" -> "t" [] c = "V" -> "v" [] c = "X" -> "x"
      [] OTHER -> c

Lower(s) == [i \in 1..Len(s) |-> LowerChar(s[i])]

\* str.endswith(suffix)
EndsWith(s, suf) ==
    /\ Len(suf) <= Len(s)
    /\ SubSeq(s, Len(s) - Len(suf) + 1, Len(s)) = suf

\* str.endswith(tuple_of_suffixes)
EndsWithAny(s, sufs) == \E suf \in sufs : EndsWith(s, suf)

\* The value None where a path is expected.
NonePath == <<"<None>">>

(***************************************************************************)
(* lookup.py: the lookup cache.                                            *)
(***************************************************************************)
\* config.SUPPORTED_LOOKUP_EXTENSIONS
SUPPORTED_LOOKUP_EXTENSIONS ==
    { <<".", "c", "s", "v">>,
      <<".", "p", "a", "r", "q", "u", "e", "t">>,
      <<".", "j", "s", "o", "n">>,
      <<".", "j", "s", "o", "n", "l">>,
      <<".", "x", "l", "s">>,
      <<".", "x", "l", "s", "x">> }

\* The lookup paths callers ask for: two supported ones (one spelled in upper
\* case) and one whose extension is not a lookup extension.
PathA == <<"a", ".", "c", "s", "v">>
PathB == <<"b", ".", "C", "S", "V">>
PathT == <<"c", ".", "t", "x", "t">>
LookupPaths == {PathA, PathB, PathT}

\* What is on disk at a lookup path: nothing, a file no reader parses, or a
\* file with the ver-th content.
AbsentFile == [st |-> "absent", ver |-> 0]
CorruptFile == [st |-> "corrupt", ver |-> 0]
LookupFileStates ==
    {AbsentFile, CorruptFile} \cup {[st |-> "ok", ver |-> v] : v \in 1..MaxVer}
\* A file whose extension get_lookup_df rejects is never read: that it exists
\* is all the code sees of it.
LookupFileStatesOf(p) ==
    IF EndsWithAny(Lower(p), SUPPORTED_LOOKUP_EXTENSIONS)
      THEN LookupFileStates
      ELSE {AbsentFile, [st |-> "ok", ver |-> 1]}

\* A loaded DataFrame: the path it was read from and the content read.
NoTable == [src |-> NonePath, ver |-> 0]
TableOf(p, f) == [src |-> p, ver |-> f.ver]

\* The outcome of a call of get_lookup_df.
NoRet == [kind |-> "none", table |-> NoTable]
Returned(tbl) == [kind |-> "table", table |-> tbl]
Raised(err) == [kind |-> err, table |-> NoTable]

LookupThreads == 1..NumCallers

VARIABLES
    lookupFiles,        \* the file system under the lookup paths
    cached_lookup_df,   \* lookup.py:14, the global _cached_lookup_df
    cached_lookup_path, \* lookup.py:15, the global _cached_lookup_path
    callers,            \* the threads that call get_lookup_df
    pc,                 \* per thread: the line of get_lookup_df it is at
    lookup_path,        \* per thread: the argument lookup_path
    use_cache,          \* per thread: the argument use_cache
    df,                 \* per thread: the local df
    ret,                \* per thread: what the call returned or raised
    hit,                \* per thread: the call returned at line 43
    reads,              \* per thread: file reads the call has made
    preSlot,            \* per thread: the cache slot when the call began
    preFile,            \* per thread: the file at lookup_path when the call began
    prev,               \* the call that completed before the current one began
    lastCached,         \* the (path, table) of the last completed caching load
    calls               \* the number of calls begun so far (counted in SpecConc)

VARIABLES
    files,      \* the file system: the file at each path, NoFile where none is
    dirs,       \* the directories os.makedirs has created
    conv        \* the last call of convert_to_csv_if_needed and its outcome

convVars == <<files, dirs, conv>>

VARIABLES
    assessment,     \* the last call of perf_utils.check_system_resources
    chunking,       \* the last call of calculate_optimal_chunk_size
    enrichment,     \* the last call of apply_lookup
    normalized      \* the last call of normalize_column_name

fnVars == <<assessment, chunking, enrichment, normalized>>

lookupVars ==
    <<lookupFiles, cached_lookup_df, cached_lookup_path, callers, pc, lookup_path,
      use_cache, df, ret, hit, reads, preSlot, preFile, prev, lastCached, calls>>


Slot == [path |-> cached_lookup_path, table |-> cached_lookup_df]
EmptySlot == [path |-> NonePath, table |-> NoTable]
NoPrev ==
    [path |-> NonePath, use_cache |-> FALSE, ret |-> NoRet, reads |-> 0, hit |-> FALSE,
     pre |-> EmptySlot]

AtRest(t) == pc[t] \in {"idle", "done"}
AllAtRest == \A t \in LookupThreads : AtRest(t)

\* The module as loaded (lines 13-15): nothing is cached and nobody is calling.
LookupInit ==
    /\ cached_lookup_df = NoTable
    /\ cached_lookup_path = NonePath
    /\ pc = [t \in LookupThreads |-> "idle"]
    /\ lookup_path = [t \in LookupThreads |-> NonePath]
    /\ use_cache = [t \in LookupThreads |-> FALSE]
    /\ df = [t \in LookupThreads |-> NoTable]
    /\ ret = [t \in LookupThreads |-> NoRet]
    /\ hit = [t \in LookupThreads |-> FALSE]
    /\ reads = [t \in LookupThreads |-> 0]
    /\ preSlot = [t \in LookupThreads |-> EmptySlot]
    /\ preFile = [t \in LookupThreads |-> AbsentFile]
    /\ prev = NoPrev
    /\ lastCached = EmptySlot
    /\ calls = 0

\* Line 41 without the comparison of the paths.
CacheHitAnyPath(t) ==
    /\ use_cache[t]
    /\ cached_lookup_df # NoTable

\* The test of line 41.
CacheHit(t) ==
    /\ use_cache[t]
    /\ cached_lookup_df # NoTable
    /\ cached_lookup_path = lookup_path[t]

\* The test of line 51 on ext = lookup_path.lower().
SupportedLookup(p) == EndsWithAny(Lower(p), SUPPORTED_LOOKUP_EXTENSIONS)

\* Line 70 without the test: every loaded table is stored.
StoresAlways(t) == TRUE

\* The test of line 70: whether the loaded table is stored in the slot.
StoresInCache(t) == use_cache[t]

\* Line 72 storing the lowered path that line 50 computed.
StoredPathLowered(t) == Lower(lookup_path[t])

\* The value line 72 stores as the cached path: the argument, as spelled.
StoredPath(t) == lookup_path[t]

\* Line 46 without the test of existence.
FileMissingNever(t) == FALSE

\* The test of line 46 made only after that of line 51 has passed.
FileMissingAfterExtension(t) ==
    /\ SupportedLookup(lookup_path[t])
    /\ lookupFiles[lookup_path[t]].st = "absent"

\* The test of line 46: os.path.isfile(lookup_path) is false.
FileMissing(t) == lookupFiles[lookup_path[t]].st = "absent"

\* A call get_lookup_df(p, u) begins (line 23).
Enter(t, p, u) ==
    /\ t \in callers
    /\ AtRest(t)
    /\ pc' = [pc EXCEPT ![t] = "L41"]
    /\ lookup_path' = [lookup_path EXCEPT ![t] = p]
    /\ use_cache' = [use_cache EXCEPT ![t] = u]
    /\ df' = [df EXCEPT ![t] = NoTable]
    /\ ret' = [ret EXCEPT ![t] = NoRet]
    /\ hit' = [hit EXCEPT ![t] = FALSE]
    /\ reads' = [reads EXCEPT ![t] = 0]
    /\ preSlot' = [preSlot EXCEPT ![t] = Slot]
    /\ preFile' = [preFile EXCEPT ![t] = lookupFiles[p]]
    /\ prev' = IF pc[t] = "done"
                 THEN [path |-> lookup_path[t], use_cache |-> use_cache[t],
                       ret |-> ret[t], reads |-> reads[t], hit |-> hit[t],
                       pre |-> preSlot[t]]
                 ELSE prev
    /\ UNCHANGED <<convVars, fnVars, lookupFiles, cached_lookup_df, cached_lookup_path, callers, lastCached>>

\* A call by the one caller of Spec.
Call(t, p, u) == Enter(t, p, u) /\ UNCHANGED calls

\* One of the MaxCalls calls the threads of SpecConc make.
CallConc(t, p, u) == calls < MaxCalls /\ calls' = calls + 1 /\ Enter(t, p, u)

\* Line 41: the test of the slot.  The two globals are read one after the
\* other; an entry is never cleared, so reading them in one step loses nothing.
L41(t) ==
    /\ pc[t] = "L41"
    /\ pc' = [pc EXCEPT ![t] = IF CacheHit(t) THEN "L43" ELSE "L46"]
    /\ UNCHANGED <<convVars, fnVars, lookupFiles, cached_lookup_df, cached_lookup_path, callers, lookup_path,
                   use_cache, df, ret, hit, reads, preSlot, preFile, prev, lastCached, calls>>

\* Lines 42-43: after logging, the global is read again and returned.
L43(t) ==
    /\ pc[t] = "L43"
    /\ ret' = [ret EXCEPT ![t] = Returned(cached_lookup_df)]
    /\ hit' = [hit EXCEPT ![t] = TRUE]
    /\ pc' = [pc EXCEPT ![t] = "done"]
    /\ UNCHANGED <<convVars, fnVars, lookupFiles, cached_lookup_df, cached_lookup_path, callers, lookup_path,
                   use_cache, df, reads, preSlot, preFile, prev, lastCached, calls>>

\* Lines 46-48: os.path.isfile.
L46(t) ==
    /\ pc[t] = "L46"
    /\ IF FileMissing(t)
         THEN /\ ret' = [ret EXCEPT ![t] = Raised("NotFound")]
              /\ pc' = [pc EXCEPT ![t] = "done"]
         ELSE /\ pc' = [pc EXCEPT ![t] = "L50"]
              /\ UNCHANGED ret
    /\ UNCHANGED <<convVars, fnVars, lookupFiles, cached_lookup_df, cached_lookup_path, callers, lookup_path,
                   use_cache, df, hit, reads, preSlot, preFile, prev, lastCached, calls>>

\* Lines 50-52: the extension test.
L50(t) ==
    /\ pc[t] = "L50"
    /\ IF ~SupportedLookup(lookup_path[t])
         THEN /\ ret' = [ret EXCEPT ![t] = Raised("UnsupportedFormat")]
              /\ pc' = [pc EXCEPT ![t] = "done"]
         ELSE /\ pc' = [pc EXCEPT ![t] = "L54"]
              /\ UNCHANGED ret
    /\ UNCHANGED <<convVars, fnVars, lookupFiles, cached_lookup_df, cached_lookup_path, callers, lookup_path,
                   use_cache, df, hit, reads, preSlot, preFile, prev, lastCached, calls>>

\* Lines 54-70: the file is read; a reader's exception becomes RuntimeError.
L54(t) ==
    /\ pc[t] = "L54"
    /\ reads' = [reads EXCEPT ![t] = @ + 1]
    /\ IF lookupFiles[lookup_path[t]].st = "ok"
         THEN /\ df' = [df EXCEPT ![t] = TableOf(lookup_path[t], lookupFiles[lookup_path[t]])]
              /\ pc' = [pc EXCEPT ![t] = IF StoresInCache(t) THEN "L71" ELSE "L77"]
              /\ UNCHANGED ret
         ELSE /\ ret' = [ret EXCEPT ![t] = Raised("LoadFailure")]
              /\ pc' = [pc EXCEPT ![t] = "done"]
              /\ UNCHANGED df
    /\ UNCHANGED <<convVars, fnVars, lookupFiles, cached_lookup_df, cached_lookup_path, callers, lookup_path,
                   use_cache, hit, preSlot, preFile, prev, lastCached, calls>>

\* Line 71: _cached_lookup_df = df
L71(t) ==
    /\ pc[t] = "L71"
    /\ cached_lookup_df' = df[t]
    /\ pc' = [pc EXCEPT ![t] = "L72"]
    /\ UNCHANGED <<convVars, fnVars, lookupFiles, cached_lookup_path, callers, lookup_path, use_cache, df,
                   ret, hit, reads, preSlot, preFile, prev, lastCached, calls>>

\* Line 72: _cached_lookup_path = lookup_path
L72(t) ==
    /\ pc[t] = "L72"
    /\ cached_lookup_path' = StoredPath(t)
    /\ pc' = [pc EXCEPT ![t] = "L77"]
    /\ UNCHANGED <<convVars, fnVars, lookupFiles, cached_lookup_df, callers, lookup_path, use_cache, df,
                   ret, hit, reads, preSlot, preFile, prev, lastCached, calls>>

\* Line 77: return df
L77(t) ==
    /\ pc[t] = "L77"
    /\ ret' = [ret EXCEPT ![t] = Returned(df[t])]
    /\ pc' = [pc EXCEPT ![t] = "done"]
    /\ lastCached' = IF use_cache[t] THEN [path |-> lookup_path[t], table |-> df[t]]
                                     ELSE lastCached
    /\ UNCHANGED <<convVars, fnVars, lookupFiles, cached_lookup_df, cached_lookup_path, callers, lookup_path,
                   use_cache, df, hit, reads, preSlot, preFile, prev, calls>>

\* The steps of get_lookup_df.
GetLookupDfStep(t) ==
    \/ L41(t) \/ L43(t) \/ L46(t) \/ L50(t) \/ L54(t) \/ L71(t) \/ L72(t) \/ L77(t)

\* Between calls the environment creates, rewrites, damages or removes a file.
SetLookupFile(p, f) ==
    /\ AllAtRest
    /\ lookupFiles[p] # f
    /\ lookupFiles' = [lookupFiles EXCEPT ![p] = f]
    /\ UNCHANGED <<convVars, fnVars, cached_lookup_df, cached_lookup_path, callers, pc, lookup_path, use_cache,
                   df, ret, hit, reads, preSlot, preFile, prev, lastCached, calls>>

(***************************************************************************)
(* converter.py: the format converter.                                     *)
(***************************************************************************)
\* The largest index of character c in s, 0 when there is none (str.rfind).
LastIndexOf(s, c) ==
    LET I == {i \in 1..Len(s) : s[i] = c}
    IN  IF I = {} THEN 0 ELSE CHOOSE i \in I : \A j \in I : j <= i

\* os.path.splitext: the extension starts at the last dot of the last
\* component, unless only dots precede it there.
SplitExt(p) ==
    LET sep == LastIndexOf(p, "/")
        dot == LastIndexOf(p, ".")
    IN  IF dot > sep /\ \E k \in (sep + 1)..(dot - 1) : p[k] # "."
          THEN <<SubSeq(p, 1, dot - 1), SubSeq(p, dot, Len(p))>>
          ELSE <<p, <<>>>>

\* os.path.basename
Basename(p) == SubSeq(p, LastIndexOf(p, "/") + 1, Len(p))

\* os.path.join(d, n)
Join(d, n) ==
    IF n # <<>> /\ n[1] = "/" THEN n
    ELSE IF d = <<>> \/ d[Len(d)] = "/" THEN d \o n
    ELSE d \o <<"/">> \o n

\* '..' in file_path
HasDotDot(p) == \E i \in 1..(Len(p) - 1) : p[i] = "." /\ p[i + 1] = "."

ExtCsv == <<".", "c", "s", "v">>
ExtParquet == <<".", "p", "a", "r", "q", "u", "e", "t">>
ExtXls == <<".", "x", "l", "s">>
ExtXlsx == <<".", "x", "l", "s", "x">>
ExtTxt == <<".", "t", "x", "t">>
ExtTsv == <<".", "t", "s", "v">>
ExtJson == <<".", "j", "s", "o", "n">>
ExtJsonl == <<".", "j", "s", "o", "n", "l">>

\* allowed_extensions of convert_to_csv_if_needed (line 63)
ALLOWED_EXTENSIONS ==
    {ExtCsv, ExtXlsx, ExtXls, ExtTxt, ExtTsv, ExtParquet, ExtJson, ExtJsonl}

\* The extensions line 73 passes through.
CANONICAL_EXTENSIONS == {ExtCsv, ExtParquet}

\* ext of lines 69-70
ExtOf(p) == Lower(SplitExt(p)[2])

\* output_path of lines 81-82
ConvertedSuffix == <<".", "c", "o", "n", "v", "e", "r", "t", "e", "d", ".", "c", "s", "v">>
OutputPath(p, d) == Join(d, SplitExt(Basename(p))[1] \o ConvertedSuffix)

\* Line 98 with the first two separators exchanged.
FALLBACK_SEPS_Swapped == <<"semicolon", "tab", "pipe">>

\* The separators line 98 falls back to, in its order.
FALLBACK_SEPS == <<"tab", "semicolon", "pipe">>

\* The reader each non-canonical extension is loaded with (lines 87-117); for
\* .txt the first of the chain, sep=None (the caller passes no delimiter).
FirstReader(ext) ==
    CASE ext \in {ExtXls, ExtXlsx} -> "excel"
      [] ext = ExtTxt -> "auto"
      [] ext = ExtTsv -> "tsv"
      [] ext = ExtJson -> "json"
      [] ext = ExtJsonl -> "jsonl"
      [] OTHER -> "none"

\* The readers that can be applied to the file at p.
ReadersOf(p) ==
    IF ExtOf(p) = ExtTxt THEN {"auto"} \cup {FALLBACK_SEPS[i] : i \in 1..Len(FALLBACK_SEPS)}
    ELSE IF FirstReader(ExtOf(p)) = "none" THEN {}
    ELSE {FirstReader(ExtOf(p))}

\* The input paths callers pass: plain ones, ones with '..', the empty one.
InCsv == <<"a", ".", "c", "s", "v">>
InUpCsv == <<".", ".", "/", "a", ".", "c", "s", "v">>
InDoc == <<"a", ".", "d", "o", "c">>
InUpDoc == <<".", ".", "/", "a", ".", "d", "o", "c">>
InTxt == <<"a", ".", "t", "x", "t">>
InJson == <<"c", ".", "J", "S", "O", "N">>
InUpJson == <<".", ".", "/", "c", ".", "j", "s", "o", "n">>
InXlsx == <<"d", ".", "x", "l", "s", "x">>
InTsv == <<"e", ".", "t", "s", "v">>
InEmpty == <<>>
InputPaths ==
    {InCsv, InUpCsv, InDoc, InUpDoc, InTxt, InJson, InUpJson, InXlsx, InTsv, InEmpty}

OutDir == <<"o", "u", "t">>
OutDirs == {OutDir}

\* Every path of the model: the inputs and what convert writes for them.
AllPaths == InputPaths \cup {OutputPath(p, d) : p \in InputPaths, d \in OutDirs}

\* A file: whether it can be read, the readers that parse it, whether the
\* table they give is empty, and, for a file convert wrote, the input and the
\* reader the table came from.
NoFile == [readable |-> FALSE, parses |-> {}, empty |-> FALSE, from |-> NonePath, by |-> "absent"]
EnvFile(r, ps, e) ==
    [readable |-> r, parses |-> ps, empty |-> e, from |-> NonePath, by |-> "env"]
Artifact(p, reader) ==
    [readable |-> TRUE, parses |-> {}, empty |-> FALSE, from |-> p, by |-> reader]

\* What the environment can put at an input path: by its extension, every
\* way its readers can fare on it (of a file that cannot be read, or that no
\* reader parses, nothing more is seen).
EnvFilesAt(p) ==
    {EnvFile(FALSE, {}, FALSE)} \cup
    ({EnvFile(TRUE, ps, e) : ps \in SUBSET ReadersOf(p), e \in BOOLEAN}
        \ {EnvFile(TRUE, {}, TRUE)})

NoConv ==
    [input |-> NonePath, output_dir |-> NonePath, existed |-> FALSE,
     readable |-> FALSE, again |-> FALSE,
     preFiles |-> [q \in AllPaths |-> NoFile], preDirs |-> {},
     kind |-> "none", path |-> NonePath, cause |-> <<>>, attempts |-> <<>>]

ConvInit ==
    /\ files = [q \in AllPaths |-> NoFile]
    /\ dirs = {}
    /\ conv = NoConv

Exists(p) == files[p] # NoFile
ExistingPaths == {q \in AllPaths : Exists(q)}

\* validate_file_path of converter.py (lines 26-42): "False" and "True" are
\* its return values, the others what it raises.
validate_file_path(p, allowed) ==
    IF p = <<>> \/ HasDotDot(p) THEN "False"
    ELSE IF ~Exists(p) THEN "NotFound"
    ELSE IF ~files[p].readable THEN "PermissionDenied"
    ELSE IF Lower(SplitExt(p)[2]) \notin allowed THEN "UnsupportedFormat"
    ELSE "True"

\* check_system_resources of converter.py (lines 10-24): it returns True
\* having at most logged, unless the file exists and os.path.getsize or
\* psutil.virtual_memory raises, which no handler catches.
check_system_resources(p, metrics) ==
    IF ~Exists(p) THEN "True"
    ELSE IF metrics = "fail" THEN "MetricsFailure"
    ELSE "True"

\* One reader applied to the file at p: "ok", or what it raises.  pd.read_json
\* on a path with no file raises FileNotFoundError or, where it takes the
\* string for JSON text, ValueError: jsonMissing is the one this pandas raises.
Attempt(p, reader, jsonMissing) ==
    IF ~Exists(p)
      THEN IF reader \in {"json", "jsonl"} THEN jsonMissing ELSE "NotFound"
    ELSE IF ~files[p].readable THEN "PermissionDenied"
    ELSE IF reader \in files[p].parses THEN "ok"
    ELSE "ParseError"

\* The inner loop of lines 98-104 from the i-th fallback separator on: the
\* attempts it makes, stopping after the first that parses.
RECURSIVE FallbackAttempts(_, _, _)
FallbackAttempts(p, i, jsonMissing) ==
    IF i > Len(FALLBACK_SEPS) THEN <<>>
    ELSE LET o == Attempt(p, FALLBACK_SEPS[i], jsonMissing)
         IN  IF o = "ok"
               THEN <<[reader |-> FALLBACK_SEPS[i], outcome |-> o]>>
               ELSE <<[reader |-> FALLBACK_SEPS[i], outcome |-> o]>>
                    \o FallbackAttempts(p, i + 1, jsonMissing)

\* Lines 87-121: the parse attempts made for extension ext, in order.
LoadAttempts(p, ext, jsonMissing) ==
    LET r == FirstReader(ext)
        o == Attempt(p, r, jsonMissing)
    IN  IF r = "none" THEN <<>>
        ELSE IF ext = ExtTxt /\ o # "ok"
          THEN <<[reader |-> r, outcome |-> o]>> \o FallbackAttempts(p, 1, jsonMissing)
        ELSE <<[reader |-> r, outcome |-> o]>>

\* The attempt whose exception leaves the try-block of lines 94-106 when no
\* attempt parsed: line 106 raises e, bound at line 96 to the first one's.
RaisedAttempt(atts) == atts[1]

\* Lines 134-150: FileNotFoundError and PermissionError pass, every other
\* exception becomes RuntimeError.
Surfaced(exc) ==
    IF exc \in {"NotFound", "PermissionDenied"} THEN exc ELSE "ConversionFailure"

\* convert_to_csv_if_needed(p, d) as a whole (lines 62-150).
Convert(p, d, metrics, jsonMissing) ==
    LET v == validate_file_path(p, ALLOWED_EXTENSIONS)
        c == check_system_resources(p, metrics)
        ext == ExtOf(p)
        out == OutputPath(p, d)
        atts == LoadAttempts(p, ext, jsonMissing)
        call == [input |-> p, output_dir |-> d,
                 existed |-> Exists(p),
                 readable |-> Exists(p) /\ files[p].readable,
                 again |-> conv.kind = "path" /\ p = conv.path /\ d = conv.output_dir,
                 preFiles |-> files, preDirs |-> dirs,
                 kind |-> "none", path |-> NonePath, cause |-> <<>>, attempts |-> <<>>]
    IN
    /\ UNCHANGED <<lookupVars, fnVars>>
    /\ IF v \notin {"True", "False"}
         THEN \* line 64: validate_file_path raises
              /\ conv' = [call EXCEPT !.kind = v]
              /\ UNCHANGED <<files, dirs>>
       ELSE IF c # "True"
         THEN \* line 67: check_system_resources raises
              /\ conv' = [call EXCEPT !.kind = c]
              /\ UNCHANGED <<files, dirs>>
       ELSE IF ext \in CANONICAL_EXTENSIONS
         THEN \* lines 73-75
              /\ conv' = [call EXCEPT !.kind = "path", !.path = p]
              /\ UNCHANGED <<files, dirs>>
       ELSE \* line 78 on: the output directory is made, then the try-block
            /\ dirs' = dirs \cup {d}
            /\ IF atts = <<>>
                 THEN \* lines 119-121: ValueError, wrapped at line 150
                      /\ conv' = [call EXCEPT !.kind = Surfaced("ValueError"),
                                              !.cause = <<"UnsupportedFormat">>]
                      /\ UNCHANGED files
               ELSE IF atts[Len(atts)].outcome # "ok"
                 THEN \* no attempt parsed
                      /\ conv' = [call EXCEPT
                                    !.kind = Surfaced(RaisedAttempt(atts).outcome),
                                    !.cause = <<RaisedAttempt(atts).outcome,
                                                RaisedAttempt(atts).reader>>,
                                    !.attempts = atts]
                      /\ UNCHANGED files
               ELSE IF files[p].empty
                 THEN \* lines 124-125: ValueError, wrapped at line 150
                      /\ conv' = [call EXCEPT !.kind = Surfaced("ValueError"),
                                              !.cause = <<"EmptyData">>,
                                              !.attempts = atts]
                      /\ UNCHANGED files
               ELSE \* lines 128-132
                    /\ files' = [files EXCEPT ![out] = Artifact(p, atts[Len(atts)].reader)]
                    /\ conv' = [call EXCEPT !.kind = "path", !.path = out, !.attempts = atts]

\* The number of input files that exist.
InputFileCount == Cardinality(ExistingPaths \cap InputPaths)

\* Between calls, before the converter has made or written anything, the
\* environment puts a file at an input path or changes it.
PutFile(p, f) ==
    /\ conv = NoConv /\ dirs = {}
    /\ p # InEmpty
    /\ files[p] # f
    /\ \A q \in AllPaths : files[q].by \in {"absent", "env"}
    /\ (Exists(p) \/ InputFileCount < MaxFiles)
    /\ files' = [files EXCEPT ![p] = f]
    /\ conv' = NoConv
    /\ UNCHANGED <<dirs, lookupVars, fnVars>>

\* ... or removes a file, an input or one convert wrote.
RemoveFile(p) ==
    /\ Exists(p)
    /\ files' = [files EXCEPT ![p] = NoFile]
    /\ conv' = NoConv
    /\ UNCHANGED <<dirs, lookupVars, fnVars>>

\* Whether os.path.getsize and psutil.virtual_memory answer or raise; they
\* are asked only of a file that exists (line 12).
MetricsOutcomes(p) == IF Exists(p) THEN {"ok", "fail"} ELSE {"ok"}

\* What read_json can raise for a path with no file (the pandas of the build
\* decides); it is seen only when such a path reaches the reader.
JsonMissingOutcomes(p) ==
    IF ~Exists(p) /\ FirstReader(ExtOf(p)) \in {"json", "jsonl"} /\ HasDotDot(p)
      THEN {"NotFound", "ParseError"}
      ELSE {"NotFound"}

\* A call of convert_to_csv_if_needed: any input path or existing file, with
\* the system metrics answering or not.
ConvertCall ==
    \E p \in InputPaths \cup ExistingPaths, d \in OutDirs :
        \E metrics \in MetricsOutcomes(p), jsonMissing \in JsonMissingOutcomes(p) : Convert(p, d, metrics, jsonMissing)

NextConv ==
    \/ ConvertCall
    \/ \E p \in InputPaths : \E f \in EnvFilesAt(p) : PutFile(p, f)
    \/ \E p \in AllPaths : RemoveFile(p)

(***************************************************************************)
(* perf_utils.py: the resource assessment.  Sizes are whole gigabytes.     *)
(***************************************************************************)
\* recommended_chunk_size of lines 184, 190, 197 and of the handler, line 212
DEFAULT_CHUNK_SIZE == 100000
LARGE_FILE_CHUNK_SIZE == 50000
LOW_MEMORY_CHUNK_SIZE == 25000
DEGRADED_CHUNK_SIZE == 100000

Min(a, b) == IF a <= b THEN a ELSE b

\* file_size_gb / available_memory_gb, or float('inf') (line 204), as a
\* fraction.
MemoryRatio(size, avail) ==
    IF avail > 0 THEN [inf |-> FALSE, num |-> size, den |-> avail]
    ELSE [inf |-> TRUE, num |-> 0, den |-> 1]
ZeroRatio == [inf |-> FALSE, num |-> 0, den |-> 1]

\* Lines 187-190: the size rule.
SizeRule(size, max_memory_gb) ==
    IF size > max_memory_gb
      THEN [use_streaming |-> TRUE, recommended_chunk_size |-> LARGE_FILE_CHUNK_SIZE]
      ELSE [use_streaming |-> FALSE, recommended_chunk_size |-> DEFAULT_CHUNK_SIZE]

\* Line 197 with the chunk size of the size rule kept.
ChunkUnderPressureKept(chunk) == chunk

\* Line 197
ChunkUnderPressure(chunk) == Min(chunk, LOW_MEMORY_CHUNK_SIZE)

\* Lines 192-197: the memory-pressure rule, applied to what the size rule gave.
MemoryRule(r, size, avail) ==
    IF avail < size * 2
      THEN [use_streaming |-> TRUE,
            recommended_chunk_size |-> ChunkUnderPressure(r.recommended_chunk_size)]
      ELSE r

\* The handler of lines 207-216 with streaming turned on.
DegradedDefaultStreaming ==
    [file_size_gb |-> 0, available_memory_gb |-> 0,
     recommended_chunk_size |-> DEGRADED_CHUNK_SIZE, use_streaming |-> TRUE,
     memory_ratio |-> ZeroRatio, error |-> TRUE]

\* What the handler of lines 207-216 returns.
DegradedDefault ==
    [file_size_gb |-> 0, available_memory_gb |-> 0,
     recommended_chunk_size |-> DEGRADED_CHUNK_SIZE, use_streaming |-> FALSE,
     memory_ratio |-> ZeroRatio, error |-> TRUE]

\* The try-block, lines 177-205: what it returns, or that it raises:
\* os.path.getsize for a file that is not there, psutil.virtual_memory when
\* the metrics query fails.
AssessBody(exists, size, metrics, avail, max_memory_gb) ==
    IF ~exists THEN [raised |-> TRUE, value |-> DegradedDefault]
    ELSE IF metrics = "fail" THEN [raised |-> TRUE, value |-> DegradedDefault]
    ELSE LET r == MemoryRule(SizeRule(size, max_memory_gb), size, avail)
         IN  [raised |-> FALSE,
              value |-> [file_size_gb |-> size, available_memory_gb |-> avail,
                         recommended_chunk_size |-> r.recommended_chunk_size,
                         use_streaming |-> r.use_streaming,
                         memory_ratio |-> MemoryRatio(size, avail),
                         error |-> FALSE]]

\* check_system_resources of perf_utils.py (lines 165-216): the try-block, and
\* for whatever it raises the handler's value.
perf_utils_check_system_resources(exists, size, metrics, avail, max_memory_gb) ==
    LET b == AssessBody(exists, size, metrics, avail, max_memory_gb)
    IN  IF b.raised
          THEN [kind |-> "returned", value |-> DegradedDefault]
          ELSE [kind |-> "returned", value |-> b.value]

\* The inputs: the file (present or not, its size), the metrics (answering or
\* not, the available memory), the recommended maximum.
FileSizes == 0..MaxSizeGB
AvailableMemories == 0..MaxAvailGB
MaxRecommended == 0..MaxRecommendedGB

NoAssessment ==
    [kind |-> "none", exists |-> FALSE, size |-> 0, metrics |-> "ok", avail |-> 0,
     max_memory_gb |-> 0, value |-> DegradedDefault]

\* A call of check_system_resources(file_path, max_memory_gb).  The function
\* keeps no state, so a behaviour makes one call.
Assess(exists, size, metrics, avail, max_memory_gb) ==
    LET r == perf_utils_check_system_resources(exists, size, metrics, avail, max_memory_gb)
    IN  /\ assessment = NoAssessment
        /\ assessment' = [kind |-> r.kind, exists |-> exists, size |-> size,
                          metrics |-> metrics, avail |-> avail,
                          max_memory_gb |-> max_memory_gb, value |-> r.value]
        /\ UNCHANGED <<lookupVars, convVars, chunking, enrichment, normalized>>

\* The file is there and the metrics answer ...
AssessMeasured ==
    \E size \in FileSizes, avail \in AvailableMemories, m \in MaxRecommended :
        Assess(TRUE, size, "ok", avail, m)

\* ... or the file is missing, or the metrics query fails.
AssessFailing ==
    \E m \in MaxRecommended :
        \/ Assess(FALSE, 0, "ok", 0, m)
        \/ \E size \in FileSizes : Assess(TRUE, size, "fail", 0, m)

NextAssess ==
    \/ AssessMeasured
    \/ AssessFailing

(***************************************************************************)
(* utils.py: the chunk size.  Sizes are whole megabytes.                   *)
(***************************************************************************)
\* The tiers of calculate_optimal_chunk_size (lines 228-233)
SMALL_FILE_MB == 50
MEDIUM_FILE_MB == 200
LARGE_FILE_MB == 1000
SMALL_FILE_ROWS == 25000
MEDIUM_FILE_ROWS == 50000
LARGE_FILE_ROWS == 100000
\* Line 237: 20% of the memory at 100 rows per MB, i.e. 20 rows per MB
MEMORY_ROWS_PER_MB == 20
\* Line 238: the clamp
MIN_MEMORY_ROWS == 50000
MAX_MEMORY_ROWS == 500000

Max(a, b) == IF a >= b THEN a ELSE b

\* calculate_optimal_chunk_size of utils.py (lines 217-238)
calculate_optimal_chunk_size(file_size_mb, available_memory_mb) ==
    IF file_size_mb < SMALL_FILE_MB THEN SMALL_FILE_ROWS
    ELSE IF file_size_mb < MEDIUM_FILE_MB THEN MEDIUM_FILE_ROWS
    ELSE IF file_size_mb < LARGE_FILE_MB THEN LARGE_FILE_ROWS
    ELSE LET memory_based_rows == available_memory_mb * MEMORY_ROWS_PER_MB
         IN  Min(Max(memory_based_rows, MIN_MEMORY_ROWS), MAX_MEMORY_ROWS)

\* The inputs: sizes at and around every tier boundary of the code and of
\* config.CHUNK_SIZE_THRESHOLDS, memories at and around the ends of the clamps.
ChunkFileSizesMB ==
    {0, 1, 49, 50, 51, 199, 200, 201, 499, 500, 501, 999, 1000, 1001, 1999, 2000, 2001, 5000}
ChunkMemoriesMB ==
    {0, 100, 142, 143, 714, 715, 2499, 2500, 2501, 24999, 25000, 25001}

NoChunking == [kind |-> "none", file_size_mb |-> 0, available_memory_mb |-> 0, out |-> 0]

\* A call of calculate_optimal_chunk_size, one in a behaviour.
ChunkSize(file_size_mb, available_memory_mb) ==
    /\ chunking = NoChunking
    /\ chunking' = [kind |-> "returned", file_size_mb |-> file_size_mb,
                    available_memory_mb |-> available_memory_mb,
                    out |-> calculate_optimal_chunk_size(file_size_mb, available_memory_mb)]
    /\ UNCHANGED <<lookupVars, convVars, assessment, enrichment, normalized>>

NextChunk ==
    \E size \in ChunkFileSizesMB, mem \in ChunkMemoriesMB : ChunkSize(size, mem)

(***************************************************************************)
(* lookup.py, cli.py: the column normalizer.                               *)
(***************************************************************************)
\* The characters of the names the model normalizes: letters of both cases,
\* the underscore, white space, punctuation.
NameChars == {"a", "B", "_", " ", "-"}
\* The characters str.strip() removes, and those \W matches.
WhitespaceChars == {" "}
NonWordChars == {" ", "-"}

\* Every name of at most MaxNameLen characters.
Names == UNION {[1..n -> NameChars] : n \in 0..MaxNameLen}

\* str.upper() on the characters of the names.
UpperChar(c) == CASE c = "a" -> "A" [] c = "b" -> "B" [] OTHER -> c
Upper(s) == [i \in 1..Len(s) |-> UpperChar(s[i])]

\* str.strip()
Strip(s) ==
    LET I == {i \in 1..Len(s) : s[i] \notin WhitespaceChars}
    IN  IF I = {} THEN <<>>
        ELSE SubSeq(s, CHOOSE i \in I : \A j \in I : i <= j,
                       CHOOSE i \in I : \A j \in I : j <= i)

\* What is left of s after the longest match of \W+ at its start.
RECURSIVE AfterRun(_)
AfterRun(s) ==
    IF s # <<>> /\ Head(s) \in NonWordChars THEN AfterRun(Tail(s)) ELSE s

\* re.sub(r'\W', '_', s): every non-word character replaced on its own.
SubEach(s) == [i \in 1..Len(s) |-> IF s[i] \in NonWordChars THEN "_" ELSE s[i]]

\* COLUMN_NAME_NORMALIZE_PATTERN.sub('_', s), the pattern being \W+
\* (config.py line 63): left to right, each match replaced by one underscore.
RECURSIVE SubRuns(_)
SubRuns(s) ==
    IF s = <<>> THEN <<>>
    ELSE IF Head(s) \in NonWordChars THEN <<"_">> \o SubRuns(AfterRun(Tail(s)))
    ELSE <<Head(s)>> \o SubRuns(Tail(s))

\* normalize_column_name of lookup.py (lines 17-21)
normalize_column_name(col) == SubRuns(Lower(Strip(col)))

\* normalize_list of cli.py (lines 15-17)
normalize_list(lst) == [i \in 1..Len(lst) |-> SubRuns(Lower(Strip(lst[i])))]

\* Names that differ from col in letter case or surrounding white space only.
Respellings(col) ==
    {Upper(col), Lower(col), <<" ">> \o col, col \o <<" ">>,
     <<" ">> \o Upper(col) \o <<" ", " ">>}

NoNormalized ==
    [kind |-> "none", col |-> <<>>, out |-> <<>>, again |-> <<>>,
     respelt |-> <<>>, out_respelt |-> <<>>, listed |-> <<>>]

\* normalize_column_name applied to a name, to its own result and to a
\* respelling of the name, and normalize_list to the list of the name alone.
Normalize(col, other) ==
    /\ normalized = NoNormalized
    /\ normalized' =
         [kind |-> "returned", col |-> col,
          out |-> normalize_column_name(col),
          again |-> normalize_column_name(normalize_column_name(col)),
          respelt |-> other,
          out_respelt |-> normalize_column_name(other),
          listed |-> normalize_list(<<col>>)]
    /\ UNCHANGED <<lookupVars, convVars, assessment, chunking, enrichment>>

NextNorm ==
    \E col \in Names : \E other \in Respellings(col) : Normalize(col, other)

(***************************************************************************)
(* lookup.py: apply_lookup.  A frame is a polars DataFrame: its column     *)
(* names in order and its rows, each row the values in column order.  A    *)
(* value is a sequence of strings.                                         *)
(***************************************************************************)
Null == <<"null">>
EmptyFrame == [columns |-> <<>>, rows |-> <<>>]

Range(seq) == {seq[i] : i \in 1..Len(seq)}
Distinct(seq) == \A i, j \in 1..Len(seq) : i # j => seq[i] # seq[j]
IndexOf(seq, x) == CHOOSE i \in 1..Len(seq) : seq[i] = x /\ \A j \in 1..(i - 1) : seq[j] # x

\* DataFrame.rename with normalize_column_name for every column (lines
\* 106-107); polars refuses a frame in which two columns have one name.
Rename(t) ==
    LET names == [i \in 1..Len(t.columns) |-> normalize_column_name(t.columns[i])]
    IN  [raised |-> ~Distinct(names), frame |-> [columns |-> names, rows |-> t.rows]]

\* DataFrame.select(cols) (line 128), for columns that are all there; polars
\* refuses a selection that names a column twice.
Select(t, cols) ==
    [raised |-> ~Distinct(cols),
     frame |-> [columns |-> cols,
                rows |-> [r \in 1..Len(t.rows) |->
                            [k \in 1..Len(cols) |-> t.rows[r][IndexOf(t.columns, cols[k])]]]]]

\* The name a column of the right frame gets in a join: polars appends
\* "_right" when the left frame has a column of that name.
RightSuffix == <<"_", "r", "i", "g", "h", "t">>
RightName(left, c) == IF c \in Range(left.columns) THEN c \o RightSuffix ELSE c

\* The columns of the right frame other than the join key, in order.
RightColumns(right, key) ==
    SelectSeq([i \in 1..Len(right.columns) |-> i], LAMBDA i : right.columns[i] # key)

\* The rows of the right frame that join left row i: the key values are
\* equal and not null.
MatchesOf(left, right, key, i) ==
    LET v == left.rows[i][IndexOf(left.columns, key)]
    IN  SelectSeq([j \in 1..Len(right.rows) |-> j],
                  LAMBDA j : v # Null /\ right.rows[j][IndexOf(right.columns, key)] = v)

\* An inner join: the rows of a left row that nothing joins are dropped.
JoinedRowsInner(left, right, key, i) ==
    LET rc == RightColumns(right, key)
        ms == MatchesOf(left, right, key, i)
    IN  [n \in 1..Len(ms) |->
           [m |-> i, l |-> ms[n],
            cells |-> left.rows[i] \o [k \in 1..Len(rc) |-> right.rows[ms[n]][rc[k]]]]]

\* how="left" (line 131): the output rows of left row i, each with the left
\* row and the right row it is made of (l = 0: of no right row).
JoinedRows(left, right, key, i) ==
    LET rc == RightColumns(right, key)
        ms == MatchesOf(left, right, key, i)
    IN  IF ms = <<>>
          THEN <<[m |-> i, l |-> 0, cells |-> left.rows[i] \o [k \in 1..Len(rc) |-> Null]]>>
          ELSE [n \in 1..Len(ms) |->
                  [m |-> i, l |-> ms[n],
                   cells |-> left.rows[i] \o [k \in 1..Len(rc) |-> right.rows[ms[n]][rc[k]]]]]

RECURSIVE JoinFrom(_, _, _, _)
JoinFrom(left, right, key, i) ==
    IF i > Len(left.rows) THEN <<>>
    ELSE JoinedRows(left, right, key, i) \o JoinFrom(left, right, key, i + 1)

\* main_df.join(lookup_df, on=key, how="left") (line 131)
LeftJoin(left, right, key) ==
    LET rc == RightColumns(right, key)
        cols == left.columns \o [k \in 1..Len(rc) |-> RightName(left, right.columns[rc[k]])]
    IN  [raised |-> ~Distinct(cols),
         frame |-> [columns |-> cols, rows |-> JoinFrom(left, right, key, 1)]]

\* What apply_lookup gives: the frame it returns, or what it raises (the
\* ValueError of the join key with the key it names, the ValueError of the
\* fields with the list it names, the error of polars) and at which line.
Enriched(frame) ==
    [kind |-> "returned", line |-> 134, key |-> <<>>, missing |-> <<>>, frame |-> frame]
EnrichRaised(kind, line, key, missing) ==
    [kind |-> kind, line |-> line, key |-> key, missing |-> missing, frame |-> EmptyFrame]

\* apply_lookup of lookup.py from line 104 on, lookup_df being what
\* get_lookup_df returned.
apply_lookup(main_df, lookup_df, lookup_key, return_columns) ==
    LET rl == Rename(lookup_df)
        rm == Rename(main_df)
        lookup_key_norm == normalize_column_name(lookup_key)
        return_columns_norm ==
            [i \in 1..Len(return_columns) |-> normalize_column_name(return_columns[i])]
        missing == SelectSeq(return_columns_norm,
                             LAMBDA c : c \notin Range(rl.frame.columns))
        sel == Select(rl.frame, <<lookup_key_norm>> \o return_columns_norm)
        joined == LeftJoin(rm.frame, sel.frame, lookup_key_norm)
    IN  IF rl.raised THEN EnrichRaised("DuplicateError", 106, <<>>, <<>>)
        ELSE IF rm.raised THEN EnrichRaised("DuplicateError", 107, <<>>, <<>>)
        ELSE IF lookup_key_norm \notin Range(rm.frame.columns)
          THEN EnrichRaised("MissingJoinKey", 115, lookup_key_norm, <<>>)
        ELSE IF lookup_key_norm \notin Range(rl.frame.columns)
          THEN EnrichRaised("MissingJoinKey", 118, lookup_key_norm, <<>>)
        ELSE IF missing # <<>>
          THEN EnrichRaised("MissingFields", 124, <<>>, missing)
        ELSE IF sel.raised THEN EnrichRaised("DuplicateError", 128, <<>>, <<>>)
        ELSE IF joined.raised THEN EnrichRaised("DuplicateError", 131, <<>>, <<>>)
        ELSE Enriched(joined.frame)

\* The column names of the frames and of the arguments, as the files spell
\* them.
ColA == <<"a">>
ColUpA == <<"A">>
ColSpA == <<" ", "a">>
ColB == <<"b">>
ColUpB == <<"B", " ">>
ColC == <<"c">>
ColD == <<"d">>
ColBRight == ColB \o RightSuffix

MainColumnLists ==
    {<<>>, <<ColA>>, <<ColC>>, <<ColUpA, ColC>>, <<ColA, ColUpA>>, <<ColA, ColB>>,
     <<ColA, ColB, ColBRight>>}
LookupColumnLists ==
    {<<>>, <<ColA>>, <<ColUpA, ColB>>, <<ColA, ColUpB, ColC>>, <<ColB, ColC>>,
     <<ColA, ColUpA, ColB>>, <<ColA, ColB, ColUpB>>}
JoinKeys == {ColUpA, ColSpA, ColD}
ReturnColumnLists ==
    {<<>>, <<ColB>>, <<ColUpB, ColC>>, <<ColD, ColC>>, <<ColD, ColB, ColD>>,
     <<ColB, ColUpB>>, <<ColA>>}

\* The values of the key column, and the key columns of at most n rows.
KeyValues == {<<"k1">>, <<"k2">>, Null}
KeyLists(n) == UNION {[1..m -> KeyValues] : m \in 0..n}

\* The frame with the given columns and one row for each of the keys: the
\* key in the columns the join key names, in every other column a value of
\* this frame, row and column only.
RowTag == <<"r1", "r2", "r3", "r4">>
FrameOf(side, columns, keys, lookup_key) ==
    [columns |-> columns,
     rows |-> [r \in 1..Len(keys) |->
                 [k \in 1..Len(columns) |->
                    IF normalize_column_name(columns[k]) = normalize_column_name(lookup_key)
                      THEN keys[r]
                      ELSE <<side, RowTag[r]>> \o columns[k]]]]

NoEnrichment ==
    [main_df |-> EmptyFrame, lookup_df |-> EmptyFrame, lookup_key |-> <<>>,
     return_columns |-> <<>>, out |-> EnrichRaised("none", 0, <<>>, <<>>)]

\* A call of apply_lookup, one in a behaviour.
Enrich(main_df, lookup_df, lookup_key, return_columns) ==
    /\ enrichment = NoEnrichment
    /\ enrichment' =
         [main_df |-> main_df, lookup_df |-> lookup_df, lookup_key |-> lookup_key,
          return_columns |-> return_columns,
          out |-> apply_lookup(main_df, lookup_df, lookup_key, return_columns)]
    /\ UNCHANGED <<lookupVars, convVars, assessment, chunking, normalized>>

\* Calls over every choice of columns, key and return columns ...
EnrichAnyColumns ==
    \E mc \in MainColumnLists, lc \in LookupColumnLists, key \in JoinKeys,
       rets \in ReturnColumnLists :
        Enrich(FrameOf("m", mc, <<<<"k1">>, <<"k2">>>>, key),
               FrameOf("l", lc, <<<<"k1">>, <<"k1">>>>, key), key, rets)

\* ... and over every choice of rows.
EnrichAnyRows ==
    \E mk \in KeyLists(MaxMainRows), lk \in KeyLists(MaxLookupRows),
       rets \in {<<ColB>>, <<ColB, ColC>>} :
        Enrich(FrameOf("m", <<ColUpA, ColC>>, mk, ColUpA),
               FrameOf("l", <<ColA, ColUpB, ColC>>, lk, ColUpA), ColUpA, rets)

NextEnrich ==
    \/ EnrichAnyColumns
    \/ EnrichAnyRows

\* No call of these functions has been made.
FnInit ==
    /\ assessment = NoAssessment
    /\ chunking = NoChunking
    /\ enrichment = NoEnrichment
    /\ normalized = NoNormalized

(***************************************************************************)
(* Spec: one caller; calls and changes of the files follow one another.    *)
(***************************************************************************)
vars == <<lookupVars, convVars, fnVars>>

Init ==
    /\ LookupInit
    /\ callers = {1}
    /\ lookupFiles = [p \in LookupPaths |-> AbsentFile]
    /\ ConvInit
    /\ FnInit

Next ==
    \/ \E p \in LookupPaths, u \in BOOLEAN : Call(1, p, u)
    \/ GetLookupDfStep(1)
    \/ \E p \in LookupPaths : \E f \in LookupFileStatesOf(p) : SetLookupFile(p, f)


Spec == Init /\ [][Next]_vars

(***************************************************************************)
(* SpecConc: NumCallers threads inside get_lookup_df, every interleaving   *)
(* of their steps, over files that do not change.                          *)
(***************************************************************************)
InitConc ==
    /\ LookupInit
    /\ callers = LookupThreads
    /\ lookupFiles \in [LookupPaths -> {AbsentFile, CorruptFile, [st |-> "ok", ver |-> 1]}]
    /\ Cardinality({p \in LookupPaths : lookupFiles[p].st # "ok"}) <= 1
    /\ ConvInit
    /\ FnInit

NextConc ==
    \/ \E t \in LookupThreads, p \in LookupPaths, u \in BOOLEAN : CallConc(t, p, u)
    \/ \E t \in LookupThreads : GetLookupDfStep(t)


SpecConc == InitConc /\ [][NextConc]_vars

(***************************************************************************)
(* SpecConv: calls of convert_to_csv_if_needed and changes of the files,   *)
(* one after another.                                                      *)
(***************************************************************************)
InitConv ==
    /\ LookupInit
    /\ callers = {}
    /\ lookupFiles = [p \in LookupPaths |-> AbsentFile]
    /\ ConvInit
    /\ FnInit

SpecConv == InitConv /\ [][NextConv]_vars

(***************************************************************************)
(* SpecAssess: calls of perf_utils.check_system_resources.                 *)
(***************************************************************************)
InitFn ==
    /\ LookupInit
    /\ callers = {}
    /\ lookupFiles = [p \in LookupPaths |-> AbsentFile]
    /\ ConvInit
    /\ FnInit

SpecAssess == InitFn /\ [][NextAssess]_vars

(***************************************************************************)
(* SpecChunk: calls of calculate_optimal_chunk_size.                       *)
(***************************************************************************)
SpecChunk == InitFn /\ [][NextChunk]_vars

(***************************************************************************)
(* SpecNorm: calls of normalize_column_name and normalize_list.            *)
(***************************************************************************)
SpecNorm == InitFn /\ [][NextNorm]_vars

(***************************************************************************)
(* SpecEnrich: calls of apply_lookup.                                      *)
(***************************************************************************)
SpecEnrich == InitFn /\ [][NextEnrich]_vars

(***************************************************************************)
(* The claims about get_lookup_df called by one caller (Spec).             *)
(***************************************************************************)
Done(t) == pc[t] = "done"

\* The slot, as the call found it, holds a table under the requested path and
\* the call allows the cache.
HitExpected(t) ==
    /\ use_cache[t]
    /\ preSlot[t].table # NoTable
    /\ preSlot[t].path = lookup_path[t]

\* C1: a call returns the cached table, reading no file, if and only if
\* use_cache is true, the slot is not empty and the requested path equals the
\* cached path; every other call goes to the file (it raises NotFound or
\* UnsupportedFormat, or reads it, and a table it returns is the file's
\* content now).  Two consecutive use_cache=True calls for one path: the
\* second is a hit that reads nothing and returns the first one's table, so
\* the two make one read when the first was a miss.
C1_HitIffCachedSamePath ==
    \A t \in callers : Done(t) =>
        /\ hit[t] <=> HitExpected(t)
        /\ hit[t] => reads[t] = 0 /\ ret[t] = Returned(preSlot[t].table)
        /\ ~hit[t] =>
            /\ ret[t].kind = "table" =>
                 reads[t] = 1 /\ ret[t].table = TableOf(lookup_path[t], preFile[t])
            /\ (preFile[t].st # "absent" /\ SupportedLookup(lookup_path[t])) => reads[t] = 1
        /\ ( /\ prev.use_cache
             /\ use_cache[t]
             /\ prev.path = lookup_path[t]
             /\ prev.ret.kind = "table" )
           => /\ hit[t]
              /\ reads[t] = 0
              /\ ret[t] = prev.ret
              /\ ~prev.hit => prev.reads + reads[t] = 1

\* Two consecutive caching calls for one path, the first a miss that read the
\* file, the second a hit although the file has changed or gone since.
C1_Witness ==
    /\ Done(1) /\ hit[1] /\ use_cache[1]
    /\ prev.use_cache /\ prev.path = lookup_path[1] /\ ~prev.hit /\ prev.reads = 1
    /\ reads[1] = 0
    /\ TableOf(lookup_path[1], lookupFiles[lookup_path[1]]) # ret[1].table

\* C2: between calls the slot holds one (path, table) pair, that of the most
\* recent call that loaded a file with use_cache=True (or nothing before the
\* first such call); such a load of another path replaces the entry, and a
\* later request for a path that is not the cached one is a miss that reads
\* the file.
C2_SlotIsLastCachingLoad ==
    /\ AllAtRest =>
        /\ Slot = lastCached
        /\ (cached_lookup_path = NonePath) <=> (cached_lookup_df = NoTable)
        /\ cached_lookup_df # NoTable => cached_lookup_df.src = cached_lookup_path
    /\ \A t \in callers : Done(t) =>
        /\ (use_cache[t] /\ ret[t].kind = "table" /\ ~hit[t])
             => Slot = [path |-> lookup_path[t], table |-> ret[t].table]
        /\ (use_cache[t] /\ preSlot[t].path # lookup_path[t])
             => ~hit[t] /\ (ret[t].kind = "table" => reads[t] = 1)

\* The entry for a path was replaced by the previous call's load of another
\* path, and this call for the earlier path missed, read the file and cached it.
C2_Witness ==
    /\ Done(1) /\ use_cache[1]
    /\ prev.pre.table # NoTable /\ prev.pre.path = lookup_path[1]
    /\ prev.use_cache /\ prev.path # lookup_path[1] /\ prev.ret.kind = "table"
    /\ preSlot[1].path = prev.path
    /\ ~hit[1] /\ reads[1] = 1 /\ ret[1].kind = "table"
    /\ cached_lookup_path = lookup_path[1]

\* C4 as claimed: a call for a path with no file raises NotFound, whatever
\* use_cache and the slot are.
C4_NotFoundWheneverMissing ==
    \A t \in callers : (Done(t) /\ preFile[t].st = "absent") => ret[t].kind = "NotFound"

\* C4 amended: a call for a path with no file raises NotFound unless it is a
\* cache hit, and then it returns the cached table; NotFound is raised for no
\* other reason.
C4_NotFoundUnlessHit ==
    \A t \in callers : Done(t) =>
        /\ (preFile[t].st = "absent" /\ ~HitExpected(t)) => ret[t].kind = "NotFound"
        /\ (preFile[t].st = "absent" /\ HitExpected(t)) => ret[t] = Returned(preSlot[t].table)
        /\ ret[t].kind = "NotFound" => preFile[t].st = "absent"

\* The path is cached, its file has been removed, and a call with
\* use_cache=False for it raises NotFound.
C4_Witness ==
    /\ Done(1) /\ ~use_cache[1]
    /\ preSlot[1].table # NoTable /\ preSlot[1].path = lookup_path[1]
    /\ preFile[1].st = "absent"
    /\ ret[1].kind = "NotFound"

\* C5 as claimed: after a call for another path, or a call with
\* use_cache=False, the entry cached before it is no longer served: the next
\* use_cache=True call for the earlier path is a miss that reads the file.
C5_InvalidatedByOtherPathOrNoCache ==
    \A t \in callers :
        ( /\ Done(t) /\ use_cache[t]
          /\ prev.pre.table # NoTable /\ prev.pre.path = lookup_path[t]
          /\ (prev.path # lookup_path[t] \/ ~prev.use_cache) )
        => ~hit[t] /\ (preFile[t].st = "ok" => reads[t] = 1)

\* C5 amended: a call changes the slot only by loading a file with
\* use_cache=True, and then the slot holds that call's pair (and the path
\* differs from that of the entry replaced); a call with use_cache=False and a
\* call that fails leave the slot as it was, and the next use_cache=True call
\* for the cached path is a hit that reads nothing.
C5_EntryStaysUntilReplaced ==
    \A t \in callers : Done(t) =>
        /\ Slot # preSlot[t] =>
            /\ use_cache[t] /\ ~hit[t] /\ ret[t].kind = "table"
            /\ Slot = [path |-> lookup_path[t], table |-> ret[t].table]
            /\ preSlot[t].table # NoTable => preSlot[t].path # lookup_path[t]
        /\ (~use_cache[t] \/ ret[t].kind # "table") => Slot = preSlot[t]
        /\ ( /\ use_cache[t]
             /\ prev.pre.table # NoTable /\ prev.pre.path = lookup_path[t]
             /\ (~prev.use_cache \/ prev.ret.kind # "table") )
           => hit[t] /\ reads[t] = 0 /\ ret[t] = Returned(prev.pre.table)

\* The path was cached, the file then changed, a use_cache=False call read the
\* new content, and this use_cache=True call is still served the old entry.
C5_Witness ==
    /\ Done(1) /\ use_cache[1] /\ hit[1] /\ reads[1] = 0
    /\ ~prev.use_cache /\ prev.path = lookup_path[1] /\ prev.ret.kind = "table"
    /\ prev.pre.path = lookup_path[1]
    /\ prev.ret.table # ret[1].table

(***************************************************************************)
(* The claim about concurrent callers (SpecConc).                          *)
(***************************************************************************)
\* C3 as claimed, at its weakest: once every call has returned, the table in
\* the slot is the one loaded from the path in the slot, and a call that was
\* served from the cache got a table loaded from the path it asked for.
C3_WholeEntryLastWriterWins ==
    /\ (AllAtRest /\ cached_lookup_df # NoTable /\ cached_lookup_path # NonePath)
         => cached_lookup_df.src = cached_lookup_path
    /\ \A t \in callers : (Done(t) /\ hit[t]) => ret[t].table.src = lookup_path[t]

(***************************************************************************)
(* The claims about convert_to_csv_if_needed (SpecConv).                   *)
(***************************************************************************)
Called == conv.kind # "none"

\* A path validate_file_path examines: not empty, without '..'.
PlainPath(p) == p # <<>> /\ ~HasDotDot(p)

\* The table the last parse attempt of the call gave, if it parsed.
Loaded == conv.attempts # <<>> /\ conv.attempts[Len(conv.attempts)].outcome = "ok"

\* C6 as claimed: for an input path with no file convert raises NotFound, at
\* once: it returns no path and makes no parse attempt.
C6_NotFoundForEveryMissingInput ==
    (Called /\ ~conv.existed) => conv.kind = "NotFound" /\ conv.attempts = <<>>

\* What the code does give for C6: NotFound at once, and nothing touched, when
\* the missing path is not empty and holds no '..'.
C6_HoldsForPlainPaths ==
    (Called /\ ~conv.existed /\ PlainPath(conv.input))
    => /\ conv.kind = "NotFound" /\ conv.attempts = <<>>
       /\ files = conv.preFiles /\ dirs = conv.preDirs

\* C7 as claimed: for an existing readable input whose extension is not one
\* of the eight, convert raises UnsupportedFormat (not ConversionFailure)
\* before any effect: no directory made, nothing written, no parse attempted.
C7_UnsupportedBeforeAnyEffect ==
    (Called /\ conv.existed /\ conv.readable /\ ExtOf(conv.input) \notin ALLOWED_EXTENSIONS)
    => /\ conv.kind = "UnsupportedFormat"
       /\ dirs = conv.preDirs /\ files = conv.preFiles /\ conv.attempts = <<>>

\* What the code does give for C7: the same, for paths without '..'.
C7_HoldsForPlainPaths ==
    ( /\ Called /\ conv.existed /\ conv.readable /\ PlainPath(conv.input)
      /\ ExtOf(conv.input) \notin ALLOWED_EXTENSIONS )
    => /\ conv.kind = "UnsupportedFormat"
       /\ dirs = conv.preDirs /\ files = conv.preFiles /\ conv.attempts = <<>>

\* C8 as claimed: when the input loads and the table is empty, convert fails
\* with the kind EmptyData, which is not ConversionFailure, and writes nothing.
C8_EmptyDataIsItsOwnKind ==
    (Called /\ Loaded /\ conv.preFiles[conv.input].empty)
    => conv.kind = "EmptyData" /\ files = conv.preFiles

\* What the code does give for C8: the RuntimeError of every conversion
\* failure, with the empty-data message inside, and nothing written.
C8_EmptyDataIsWrapped ==
    (Called /\ Loaded /\ conv.preFiles[conv.input].empty)
    => /\ conv.kind = "ConversionFailure" /\ conv.cause = <<"EmptyData">>
       /\ files = conv.preFiles

\* C9 as claimed: for an existing readable .csv or .parquet input convert
\* returns the input path and changes nothing on disk; and converting what a
\* successful convert returned, with the same output directory, returns it
\* again and changes no file.
C9_CanonicalPassThroughIdempotent ==
    /\ (Called /\ conv.existed /\ conv.readable /\ ExtOf(conv.input) \in CANONICAL_EXTENSIONS)
       => /\ conv.kind = "path" /\ conv.path = conv.input
          /\ files = conv.preFiles /\ dirs = conv.preDirs
    /\ (Called /\ conv.again)
       => conv.kind = "path" /\ conv.path = conv.input /\ files = conv.preFiles

\* What the code does give for C9: all of it whenever check_system_resources
\* does not raise.
C9_HoldsWhenMetricsAnswer ==
    conv.kind # "MetricsFailure" => C9_CanonicalPassThroughIdempotent

\* C10: for a .txt input the parse attempts are auto-detection, tab,
\* semicolon, pipe in this order, at most four; an attempt is made only after
\* all before it failed, and none after one that parsed; the table of the one
\* that parsed is the one used; when all four fail, the error that surfaces is
\* the first (auto-detection) attempt's.
C10_TxtFallbackChain ==
    (Called /\ ExtOf(conv.input) = ExtTxt) =>
        LET a == conv.attempts
            n == Len(a)
            f == conv.preFiles[conv.input]
        IN  /\ n <= 4
            /\ n = 0 => conv.kind \in {"NotFound", "PermissionDenied", "MetricsFailure"}
            /\ \A i \in 1..n :
                 /\ a[i].reader = <<"auto", "tab", "semicolon", "pipe">>[i]
                 /\ a[i].outcome = "ok" <=> a[i].reader \in f.parses
                 /\ a[i].outcome = "ok" => i = n
            /\ (n > 0 /\ n < 4) => a[n].outcome = "ok"
            /\ (n > 0 /\ a[n].outcome = "ok") =>
                 IF f.empty
                   THEN conv.kind = "ConversionFailure" /\ conv.cause = <<"EmptyData">>
                   ELSE /\ conv.kind = "path"
                        /\ files[conv.path] = Artifact(conv.input, a[n].reader)
            /\ (n > 0 /\ a[n].outcome # "ok") =>
                 /\ n = 4
                 /\ conv.kind = "ConversionFailure"
                 /\ conv.cause = <<a[1].outcome, "auto">>

\* A .txt file that none of the four strategies parses: four attempts, and the
\* failure carries the auto-detection error.
C10_Witness ==
    /\ Called /\ conv.input = InTxt
    /\ Len(conv.attempts) = 4
    /\ \A i \in 1..4 : conv.attempts[i].outcome = "ParseError"
    /\ conv.attempts[4].reader = "pipe"
    /\ conv.kind = "ConversionFailure" /\ conv.cause = <<"ParseError", "auto">>

\* C11 as claimed: the resource check is advisory; whatever the metrics are,
\* and when the metrics query itself fails, it never makes convert fail: no
\* call ends with the error of the metrics query.
C11_ResourceCheckNeverFailsConvert ==
    Called => conv.kind # "MetricsFailure"

\* What the code does give for C11: the check changes nothing of a call whose
\* file does not exist, since it asks the metrics only of a file that exists.
C11_NoFailureForMissingFile ==
    (Called /\ ~conv.existed) => conv.kind # "MetricsFailure"

(***************************************************************************)
(* The claims about perf_utils.check_system_resources (SpecAssess).        *)
(***************************************************************************)
Assessed == assessment.kind # "none"
Measured == Assessed /\ assessment.exists /\ assessment.metrics = "ok"

\* C12: in an assessment made without a metrics failure, available memory
\* below twice the file size gives streaming and a chunk size of at most
\* 25,000; a file larger than the recommended maximum gives streaming; and
\* the chunk size is never above the one the size rule alone gives.
C12_MemoryPressureOnlyTightens ==
    Measured =>
        LET a == assessment
            v == assessment.value
        IN  /\ a.kind = "returned" /\ ~v.error
            /\ a.avail < 2 * a.size =>
                 v.use_streaming /\ v.recommended_chunk_size <= 25000
            /\ a.size > a.max_memory_gb => v.use_streaming
            /\ v.recommended_chunk_size
                 <= (IF a.size > a.max_memory_gb THEN 50000 ELSE 100000)

\* A small file under memory pressure: the size rule alone gives 100,000 and
\* no streaming, the assessment 25,000 and streaming.
C12_Witness ==
    /\ Measured
    /\ assessment.size <= assessment.max_memory_gb
    /\ assessment.avail < 2 * assessment.size
    /\ assessment.value.use_streaming
    /\ assessment.value.recommended_chunk_size = 25000

\* C14: check_system_resources never raises; for a missing file or a failing
\* metrics query it returns the degraded default (no streaming, chunk size
\* 100,000, memory ratio 0), and otherwise an assessment of the measured file
\* size and available memory.
C14_AssessNeverRaises ==
    Assessed =>
        LET a == assessment
            v == assessment.value
        IN  /\ a.kind = "returned"
            /\ IF ~a.exists \/ a.metrics = "fail"
                 THEN /\ ~v.use_streaming
                      /\ v.recommended_chunk_size = 100000
                      /\ ~v.memory_ratio.inf /\ v.memory_ratio.num = 0
                 ELSE /\ ~v.error
                      /\ v.file_size_gb = a.size
                      /\ v.available_memory_gb = a.avail
                      /\ v.use_streaming
                           <=> (a.size > a.max_memory_gb \/ a.avail < 2 * a.size)
                      /\ IF a.avail > 0
                           THEN ~v.memory_ratio.inf /\ v.memory_ratio.num = a.size
                                /\ v.memory_ratio.den = a.avail
                           ELSE v.memory_ratio.inf

\* The file is missing: the degraded default is returned.
C14_Witness ==
    /\ Assessed /\ ~assessment.exists
    /\ assessment.kind = "returned"
    /\ assessment.value.error /\ ~assessment.value.use_streaming

(***************************************************************************)
(* The claim about calculate_optimal_chunk_size (SpecChunk).               *)
(***************************************************************************)
\* C13 as claimed: the chunk size follows the four-tier table: 50,000 rows
\* below 50 MB, 100,000 from 50 to below 500, 200,000 from 500 to below 2000,
\* and from 2000 on 700 rows per MB of available memory (0.7 * 1000), kept
\* between 100,000 and 500,000.
C13_FourTierTable ==
    chunking.kind = "returned" =>
        LET size == chunking.file_size_mb
            mem == chunking.available_memory_mb
        IN  chunking.out =
              IF size < 50 THEN 50000
              ELSE IF size < 500 THEN 100000
              ELSE IF size < 2000 THEN 200000
              ELSE Min(Max(mem * 700, 100000), 500000)

\* What the code does give for C13: a chunk size between 25,000 and 500,000.
C13_ChunkSizeInRange ==
    chunking.kind = "returned" => chunking.out >= 25000 /\ chunking.out <= 500000

(***************************************************************************)
(* The claim about normalize_column_name (SpecNorm).                       *)
(***************************************************************************)
\* The name as the claim describes its normal form: trimmed, lowercased, and
\* of every maximal run of non-word characters the first made an underscore,
\* the others dropped.
NormalFormOf(col) ==
    LET t == Lower(Strip(col))
        marked == [i \in 1..Len(t) |->
                     IF t[i] \notin NonWordChars THEN t[i]
                     ELSE IF i > 1 /\ t[i - 1] \in NonWordChars THEN "drop"
                     ELSE "_"]
        Kept(c) == c # "drop"
    IN  SelectSeq(marked, Kept)

\* C17: normalize is idempotent; its result is the trimmed, lowercased name
\* with each maximal run of non-word characters replaced by one underscore,
\* so it holds word characters only; names that differ only in letter case or
\* surrounding white space have the same result; and normalize_list of
\* cli.py gives the same result.
C17_NormalizeIdempotent ==
    normalized.kind = "returned" =>
        /\ normalized.again = normalized.out
        /\ normalized.out = NormalFormOf(normalized.col)
        /\ \A i \in 1..Len(normalized.out) : normalized.out[i] \notin NonWordChars
        /\ normalized.out_respelt = normalized.out
        /\ normalized.listed = <<normalized.out>>

\* A name with upper case, and a run of two non-word characters inside.
C17_Witness ==
    /\ normalized.kind = "returned"
    /\ normalized.col = <<"B", " ", "-">>
    /\ normalized.out = <<"b", "_">>
    /\ normalized.respelt = <<" ", "B", " ", "-">>

(***************************************************************************)
(* The claims about apply_lookup (SpecEnrich).                             *)
(***************************************************************************)
EnrichCalled == enrichment.out.kind # "none"
NormalizedNames(columns) == [i \in 1..Len(columns) |-> normalize_column_name(columns[i])]

\* The outcome the claim gives a call by the normalized column sets alone.
OutcomeByColumnSets ==
    LET key == normalize_column_name(enrichment.lookup_key)
        mcols == Range(NormalizedNames(enrichment.main_df.columns))
        lcols == Range(NormalizedNames(enrichment.lookup_df.columns))
        absent == Range(NormalizedNames(enrichment.return_columns)) \ lcols
    IN  IF key \notin mcols \/ key \notin lcols
          THEN /\ enrichment.out.kind = "MissingJoinKey"
               /\ enrichment.out.key = key
               /\ enrichment.out.frame = EmptyFrame
        ELSE IF absent # {}
          THEN /\ enrichment.out.kind = "MissingFields"
               /\ Range(enrichment.out.missing) = absent
               /\ enrichment.out.frame = EmptyFrame
        ELSE enrichment.out.kind = "returned"

\* C15 as claimed: the normalized column sets alone decide how enrich ends:
\* MissingJoinKey naming the normalized key exactly when the key is in not
\* both tables; otherwise MissingFields listing exactly the absent return
\* columns exactly when there is one; otherwise success; no join when it
\* fails.
C15_OutcomeByColumnSetsAlone ==
    EnrichCalled => OutcomeByColumnSets

\* What the code does give for C15: the claimed outcome whenever polars meets
\* no name twice: in the normalized columns of either table, in the key with
\* the return columns, in the columns of the joined frame.
C15_HoldsForDistinctNames ==
    LET key == normalize_column_name(enrichment.lookup_key)
        mcols == NormalizedNames(enrichment.main_df.columns)
        lcols == NormalizedNames(enrichment.lookup_df.columns)
        rets == NormalizedNames(enrichment.return_columns)
    IN  ( /\ EnrichCalled
          /\ Distinct(mcols) /\ Distinct(lcols) /\ Distinct(<<key>> \o rets)
          /\ \A k \in 1..Len(rets) :
               ~(rets[k] \in Range(mcols) /\ rets[k] \o RightSuffix \in Range(mcols)) )
        => OutcomeByColumnSets

\* C16: on success the frame returned is the left outer join with the lookup
\* frame projected to the key and the return columns: its columns are the
\* main frame's and one for each return column; each main row gives as many
\* output rows as lookup rows have its (non-null) key, one for each of them
\* with that row's return-column values, or, when there is none, one output
\* row with null in every return column; every output row comes of a main
\* row and carries it unchanged.
C16_LeftOuterJoinProjected ==
    enrichment.out.kind = "returned" =>
        LET main == enrichment.main_df
            lk == enrichment.lookup_df
            f == enrichment.out.frame
            key == normalize_column_name(enrichment.lookup_key)
            rets == NormalizedNames(enrichment.return_columns)
            nm == Len(main.columns)
            km == IndexOf(NormalizedNames(main.columns), key)
            kl == IndexOf(NormalizedNames(lk.columns), key)
            Src(k) == IndexOf(NormalizedNames(lk.columns), rets[k])
            Matching(i) == {j \in 1..Len(lk.rows) :
                              main.rows[i][km] # Null /\ lk.rows[j][kl] = main.rows[i][km]}
            Outs(i) == {n \in 1..Len(f.rows) : f.rows[n].m = i}
        IN  /\ Len(f.columns) = nm + Len(rets)
            /\ SubSeq(f.columns, 1, nm) = NormalizedNames(main.columns)
            /\ \A n \in 1..Len(f.rows) :
                 /\ f.rows[n].m \in 1..Len(main.rows)
                 /\ Len(f.rows[n].cells) = nm + Len(rets)
                 /\ SubSeq(f.rows[n].cells, 1, nm) = main.rows[f.rows[n].m]
            /\ \A i \in 1..Len(main.rows) :
                 IF Matching(i) = {}
                   THEN /\ Cardinality(Outs(i)) = 1
                        /\ \A n \in Outs(i) : \A k \in 1..Len(rets) :
                             f.rows[n].cells[nm + k] = Null
                   ELSE /\ Cardinality(Outs(i)) = Cardinality(Matching(i))
                        /\ {f.rows[n].l : n \in Outs(i)} = Matching(i)
                        /\ \A n \in Outs(i) : \A k \in 1..Len(rets) :
                             f.rows[n].cells[nm + k] = lk.rows[f.rows[n].l][Src(k)]

\* Two main rows: one has the key of two lookup rows and gives two output
\* rows, the other the key of none and gives one row of nulls.
C16_Witness ==
    /\ enrichment.out.kind = "returned"
    /\ Len(enrichment.main_df.rows) = 2
    /\ Len(enrichment.lookup_df.rows) = 2
    /\ Len(enrichment.out.frame.rows) = 3
    /\ \E n \in 1..3 : enrichment.out.frame.rows[n].l = 0
    /\ \E n \in 1..3 : enrichment.out.frame.rows[n].l = 2

(***************************************************************************)
(* The claim about failing calls of get_lookup_df (Spec).                  *)
(***************************************************************************)
Failed(r) == r.kind \in {"NotFound", "UnsupportedFormat", "LoadFailure"}

\* C18: a call that fails leaves the slot as it was before the call, whatever
\* its use_cache; a call with use_cache=True that follows it, for the path
\* cached before it, is a hit and returns the table cached before it; and
\* for a path with no file and no supported extension the error is NotFound.
C18_FailedCallLeavesSlot ==
    \A t \in callers : Done(t) =>
        /\ Failed(ret[t]) => Slot = preSlot[t]
        /\ ( /\ Failed(prev.ret) /\ prev.pre.table # NoTable
             /\ use_cache[t] /\ lookup_path[t] = prev.pre.path )
           => hit[t] /\ ret[t] = Returned(prev.pre.table)
        /\ (preFile[t].st = "absent" /\ ~SupportedLookup(lookup_path[t]))
           => ret[t].kind = "NotFound"

\* a.csv is cached; a call for c.txt, which does not exist, fails with
\* NotFound; the call for a.csv that follows is a hit.
C18_Witness ==
    /\ Done(1) /\ hit[1] /\ use_cache[1]
    /\ prev.path = PathT /\ prev.ret.kind = "NotFound"
    /\ prev.pre.table # NoTable
    /\ lookup_path[1] = prev.pre.path
    /\ Slot = prev.pre

=============================================================================
